---------------------------- MODULE Spec2Model ----------------------------
(***************************************************************************)
(* Model of the 32-bit ISA simulator: the CPU32 engine of isa32_sim.py    *)
(* (register file, MOV/ADD/SUB/MUL/DIV, cycle accounting) and the line    *)
(* decoder execute_instruction of isa32_input.py.                          *)
(*                                                                         *)
(* Word width.  The simulator's word has 32 bits (MASK32 = 0xFFFFFFFF).   *)
(* TLC's integers are themselves 32 bits wide, so neither 2^32 nor a      *)
(* product of two words can be evaluated.  The word is therefore scaled   *)
(* to WordBits bits; every operator below is written in terms of the      *)
(* width exactly as the source is written in terms of its masks, and all  *)
(* values of the scaled word are explored.  The width of a run is the      *)
(* variable width, fixed when the run starts: WordBits where the engine    *)
(* is driven with arbitrary operands, SessionBits where whole sessions on  *)
(* given input are run, so that the values of the example program fit.     *)
(***************************************************************************)
EXTENDS Integers, Sequences, FiniteSets, TLC

VARIABLES R, cycles, instruction_count, mode, halted, stdout, completed,
          width, input, pc, dumped, reported, crashed

(***************************************************************************)
(* Bounds of the exploration.                                              *)
(***************************************************************************)
WordBits == 3          \* width of a register, scaled down from 32
MaxCalls == 2          \* engine calls explored per run of a caller
MaxLines == 4          \* effective input lines explored per run of a driver
SessionBits == 5       \* width of a register in the runs of whole sessions
MaxInput == 2          \* length of the sampled inputs of a session

NumRegs == 8           \* self.R = [0] * 8
HiReg   == 7           \* self.R[7], the HI/REM register

MODULUS  == 2 ^ width          \* 0x100000000
SIGN_BIT == 2 ^ (width - 1)    \* 0x80000000
MASK32   == MODULUS - 1           \* 0xFFFFFFFF

Opcodes == {"MOV", "ADD", "SUB", "MUL", "DIV"}

(***************************************************************************)
(* x & MASK32 on Python's unbounded two's-complement integers: the low    *)
(* WordBits bits, i.e. the non-negative residue modulo MASK32 + 1.        *)
(***************************************************************************)
AndMask(x) == x % (MASK32 + 1)

\* mutant of wrap32: the value is stored as it is
wrap32_none(x) == x

wrap32(x) == AndMask(x)

\* mutant of to_signed32: the unsigned value is returned
to_signed32_unsigned(x) == AndMask(x)

to_signed32(x) ==
    LET y == AndMask(x)
    IN  IF y < SIGN_BIT THEN y ELSE y - MODULUS

(***************************************************************************)
(* Python integer operators used by MUL and DIV.                           *)
(***************************************************************************)
Abs(x) == IF x < 0 THEN -x ELSE x

\* mutant of IntOfTrueDiv: a // b, the floored quotient
FloorDiv(a, b) == IF b > 0 THEN a \div b ELSE (-a) \div (-b)

\* int(a / b): the true quotient as a float, truncated toward zero.  For
\* operands of at most 32 bits the float quotient never rounds across an
\* integer, so the result is the exact truncated quotient.
IntOfTrueDiv(a, b) ==
    LET q == Abs(a) \div Abs(b)
    IN  IF (a < 0) = (b < 0) THEN q ELSE -q

\* a % b: Python's modulo, a - b * floor(a / b); the result has the sign
\* of b.
PyMod(a, b) == IF b > 0 THEN a % b ELSE -((-a) % (-b))

\* mutant of ShiftRightWord: a shift of the magnitude, rounding toward zero
ShiftRightTrunc(x) == IF x < 0 THEN -((-x) \div MODULUS) ELSE x \div MODULUS

\* x >> WordBits: arithmetic right shift, floor(x / 2^WordBits).
ShiftRightWord(x) == x \div MODULUS

(***************************************************************************)
(* List indexing self.R[i]: indices -8 .. 7 are accepted, a negative one  *)
(* counting from the end; any other index raises IndexError.               *)
(***************************************************************************)
ValidIndex(i) == i \in (-NumRegs) .. (NumRegs - 1)
ListIndex(i) == IF i < 0 THEN i + NumRegs ELSE i

(***************************************************************************)
(* The engine.  A CPU value is [R, cycles, instruction_count]; a call      *)
(* returns the CPU after it, the exception it raised ("" for none), the   *)
(* opcode it executed to completion ("" for none) and the number of       *)
(* division-by-zero warnings it printed.                                   *)
(***************************************************************************)
CPI == [op \in Opcodes |->
          CASE op = "MOV" -> 1
            [] op = "ADD" -> 1
            [] op = "SUB" -> 1
            [] op = "MUL" -> 3
            [] op = "DIV" -> 4]

NewCPU == [R |-> [i \in 0 .. (NumRegs - 1) |-> 0],
           cycles |-> 0,
           instruction_count |-> 0]

_count(c, op) ==
    [c EXCEPT !.instruction_count = @ + 1,
              !.cycles = @ + (IF op \in DOMAIN CPI THEN CPI[op] ELSE 1)]

Raised(c, e)    == [cpu |-> c, exc |-> e, done |-> "", warned |-> 0]
Returned(c, op) == [cpu |-> c, exc |-> "", done |-> op, warned |-> 0]

\* mutant of Skipped: the skipped division is counted as a DIV
SkippedCounted(c) ==
    [cpu |-> _count(c, "DIV"), exc |-> "", done |-> "", warned |-> 1]

Skipped(c)      == [cpu |-> c, exc |-> "", done |-> "", warned |-> 1]

\* mutant of MOV: the immediate is stored without wrapping
MOV_nowrap(c, rd, imm) ==
    IF ~ValidIndex(rd) THEN Raised(c, "IndexError")
    ELSE Returned(_count([c EXCEPT !.R[ListIndex(rd)] = imm], "MOV"), "MOV")

MOV(c, rd, imm) ==
    IF ~ValidIndex(rd) THEN Raised(c, "IndexError")
    ELSE Returned(_count([c EXCEPT !.R[ListIndex(rd)] = wrap32(imm)], "MOV"),
                  "MOV")

\* mutant of ADD: the carry out of the word is stored in the HI register
ADD_SetsHi(c, rd, rs, imm) ==
    IF ~ValidIndex(rs) \/ ~ValidIndex(rd) THEN Raised(c, "IndexError")
    ELSE LET result == to_signed32(c.R[ListIndex(rs)]) + to_signed32(imm)
             c1 == [c  EXCEPT !.R[ListIndex(rd)] = wrap32(result)]
             c2 == [c1 EXCEPT !.R[HiReg] = wrap32(ShiftRightWord(result))]
         IN  Returned(_count(c2, "ADD"), "ADD")

ADD(c, rd, rs, imm) ==
    IF ~ValidIndex(rs) \/ ~ValidIndex(rd) THEN Raised(c, "IndexError")
    ELSE LET result == to_signed32(c.R[ListIndex(rs)]) + to_signed32(imm)
         IN  Returned(_count([c EXCEPT !.R[ListIndex(rd)] = wrap32(result)],
                             "ADD"), "ADD")

\* mutant of SUB: the operands of the subtraction are exchanged
SUB_swapped(c, rd, rs, imm) ==
    IF ~ValidIndex(rs) \/ ~ValidIndex(rd) THEN Raised(c, "IndexError")
    ELSE LET result == to_signed32(imm) - to_signed32(c.R[ListIndex(rs)])
         IN  Returned(_count([c EXCEPT !.R[ListIndex(rd)] = wrap32(result)],
                             "SUB"), "SUB")

SUB(c, rd, rs, imm) ==
    IF ~ValidIndex(rs) \/ ~ValidIndex(rd) THEN Raised(c, "IndexError")
    ELSE LET result == to_signed32(c.R[ListIndex(rs)]) - to_signed32(imm)
         IN  Returned(_count([c EXCEPT !.R[ListIndex(rd)] = wrap32(result)],
                             "SUB"), "SUB")

\* mutant of MUL: the high word is written first, the low word last
MUL_HiFirst(c, rd, rs) ==
    IF ~ValidIndex(rd) \/ ~ValidIndex(rs) THEN Raised(c, "IndexError")
    ELSE LET a == to_signed32(c.R[ListIndex(rd)])
             b == to_signed32(c.R[ListIndex(rs)])
             product == a * b
             c1 == [c  EXCEPT !.R[HiReg] = wrap32(ShiftRightWord(product))]
             c2 == [c1 EXCEPT !.R[ListIndex(rd)] = wrap32(product)]
         IN  Returned(_count(c2, "MUL"), "MUL")

MUL(c, rd, rs) ==
    IF ~ValidIndex(rd) \/ ~ValidIndex(rs) THEN Raised(c, "IndexError")
    ELSE LET a == to_signed32(c.R[ListIndex(rd)])
             b == to_signed32(c.R[ListIndex(rs)])
             product == a * b
             c1 == [c  EXCEPT !.R[ListIndex(rd)] = wrap32(product)]
             c2 == [c1 EXCEPT !.R[HiReg] = wrap32(ShiftRightWord(product))]
         IN  Returned(_count(c2, "MUL"), "MUL")

\* mutant of DIV: the remainder is not stored
DIV_NoRemainder(c, rd, rs) ==
    IF ~ValidIndex(rd) \/ ~ValidIndex(rs) THEN Raised(c, "IndexError")
    ELSE LET dividend == to_signed32(c.R[ListIndex(rd)])
             divisor  == to_signed32(c.R[ListIndex(rs)])
         IN  IF divisor = 0 THEN Skipped(c)
             ELSE LET quotient == IntOfTrueDiv(dividend, divisor)
                      c1 == [c EXCEPT !.R[ListIndex(rd)] = wrap32(quotient)]
                  IN  Returned(_count(c1, "DIV"), "DIV")

DIV(c, rd, rs) ==
    IF ~ValidIndex(rd) \/ ~ValidIndex(rs) THEN Raised(c, "IndexError")
    ELSE LET dividend == to_signed32(c.R[ListIndex(rd)])
             divisor  == to_signed32(c.R[ListIndex(rs)])
         IN  IF divisor = 0 THEN Skipped(c)
             ELSE LET quotient  == IntOfTrueDiv(dividend, divisor)
                      remainder == PyMod(dividend, divisor)
                      c1 == [c  EXCEPT !.R[ListIndex(rd)] = wrap32(quotient)]
                      c2 == [c1 EXCEPT !.R[HiReg] = wrap32(remainder)]
                  IN  Returned(_count(c2, "DIV"), "DIV")

(***************************************************************************)
(* Text.  A token is a sequence of one-character strings; a line is the    *)
(* sequence of its tokens, line.strip().split().                           *)
(***************************************************************************)
LowerCase == <<"a", "b", "c", "d", "e", "f", "g", "h", "i", "j", "k", "l", "m",
               "n", "o", "p", "q", "r", "s", "t", "u", "v", "w", "x", "y", "z">>
UpperCase == <<"A", "B", "C", "D", "E", "F", "G", "H", "I", "J", "K", "L", "M",
               "N", "O", "P", "Q", "R", "S", "T", "U", "V", "W", "X", "Y", "Z">>
Digits    == <<"0", "1", "2", "3", "4", "5", "6", "7", "8", "9">>

IndexIn(c, alphabet) ==
    IF \E i \in DOMAIN alphabet : alphabet[i] = c
    THEN CHOOSE i \in DOMAIN alphabet : alphabet[i] = c
    ELSE 0

\* str.upper() and str.lower()
upper(tok) ==
    [i \in DOMAIN tok |->
        IF IndexIn(tok[i], LowerCase) # 0
        THEN UpperCase[IndexIn(tok[i], LowerCase)] ELSE tok[i]]
lower(tok) ==
    [i \in DOMAIN tok |->
        IF IndexIn(tok[i], UpperCase) # 0
        THEN LowerCase[IndexIn(tok[i], UpperCase)] ELSE tok[i]]

\* str.isdigit(): non-empty and every character a digit
isdigit(tok) ==
    /\ Len(tok) > 0
    /\ \A i \in DOMAIN tok : IndexIn(tok[i], Digits) # 0

\* the value of a string of decimal digits
RECURSIVE DecimalValue(_)
DecimalValue(ds) ==
    IF Len(ds) = 0 THEN 0
    ELSE 10 * DecimalValue(SubSeq(ds, 1, Len(ds) - 1))
         + (IndexIn(ds[Len(ds)], Digits) - 1)

\* int(tok): an optional sign and decimal digits, ValueError otherwise
int(tok) ==
    LET has_sign == Len(tok) > 0 /\ tok[1] \in {"-", "+"}
        digits == IF has_sign THEN Tail(tok) ELSE tok
    IN  IF ~isdigit(digits) THEN [exc |-> "ValueError", value |-> 0]
        ELSE [exc |-> "",
              value |-> IF has_sign /\ tok[1] = "-" THEN -DecimalValue(digits)
                        ELSE DecimalValue(digits)]

\* tok.replace(',', '')
replace_comma(tok) == SelectSeq(tok, LAMBDA c : c # ",")

parse_operand(tok) ==
    LET operand == lower(tok)
    IN  IF Len(operand) > 0 /\ operand[1] = "r" /\ isdigit(Tail(operand))
        THEN [exc |-> "", value |-> DecimalValue(Tail(operand)),
              is_register |-> TRUE]
        ELSE [exc |-> int(operand).exc, value |-> int(operand).value,
              is_register |-> FALSE]

(***************************************************************************)
(* execute_instruction(cpu, line).  The result is that of the engine call  *)
(* it makes, with the value it returns (ret) and the lines it prints for   *)
(* an unknown opcode (unknown) and for a caught exception (error).  An     *)
(* exception raised while decoding or inside the engine call is caught:    *)
(* the CPU is as the raising statement left it.                            *)
(***************************************************************************)
Outcome(r, ret, unknown) ==
    [cpu |-> r.cpu, done |-> r.done, warned |-> r.warned, ret |-> ret,
     unknown |-> unknown, error |-> IF r.exc = "" THEN 0 ELSE 1]

\* parts[i] with i counted from 1; exc is IndexError past the end
Operand(parts, i, strip_comma) ==
    IF i > Len(parts) THEN [exc |-> "IndexError", value |-> 0]
    ELSE LET p == parse_operand(IF strip_comma THEN replace_comma(parts[i])
                                ELSE parts[i])
         IN  [exc |-> p.exc, value |-> p.value]

\* the statements of a two-operand branch (MOV, MUL, DIV)
Decode2(parts) ==
    LET rd == Operand(parts, 2, TRUE)
        x  == Operand(parts, 3, FALSE)
    IN  IF rd.exc # "" THEN [exc |-> rd.exc, rd |-> 0, x |-> 0]
        ELSE IF x.exc # "" THEN [exc |-> x.exc, rd |-> 0, x |-> 0]
        ELSE [exc |-> "", rd |-> rd.value, x |-> x.value]

\* the statements of a three-operand branch (ADD, SUB)
Decode3(parts) ==
    LET rd  == Operand(parts, 2, TRUE)
        rs  == Operand(parts, 3, TRUE)
        imm == Operand(parts, 4, FALSE)
    IN  IF rd.exc # "" THEN [exc |-> rd.exc, rd |-> 0, rs |-> 0, imm |-> 0]
        ELSE IF rs.exc # "" THEN [exc |-> rs.exc, rd |-> 0, rs |-> 0, imm |-> 0]
        ELSE IF imm.exc # "" THEN [exc |-> imm.exc, rd |-> 0, rs |-> 0, imm |-> 0]
        ELSE [exc |-> "", rd |-> rd.value, rs |-> rs.value, imm |-> imm.value]

\* mutant of execute_instruction: every line read is counted, blank and
\* comment lines included
execute_instruction_counting(c, parts) ==
    IF parts = <<>> \/ (Len(parts[1]) > 0 /\ parts[1][1] \in {"#", ";"})
    THEN Outcome(Returned(_count(c, "NOP"), ""), "", 0)
    ELSE LET op == upper(parts[1])
             d2 == Decode2(parts)
             d3 == Decode3(parts)
         IN  CASE op = <<"M", "O", "V">> ->
                    IF d2.exc # "" THEN Outcome(Raised(c, d2.exc), "", 0)
                    ELSE Outcome(MOV(c, d2.rd, d2.x), "", 0)
               [] op = <<"A", "D", "D">> ->
                    IF d3.exc # "" THEN Outcome(Raised(c, d3.exc), "", 0)
                    ELSE Outcome(ADD(c, d3.rd, d3.rs, d3.imm), "", 0)
               [] op = <<"S", "U", "B">> ->
                    IF d3.exc # "" THEN Outcome(Raised(c, d3.exc), "", 0)
                    ELSE Outcome(SUB(c, d3.rd, d3.rs, d3.imm), "", 0)
               [] op = <<"M", "U", "L">> ->
                    IF d2.exc # "" THEN Outcome(Raised(c, d2.exc), "", 0)
                    ELSE Outcome(MUL(c, d2.rd, d2.x), "", 0)
               [] op = <<"D", "I", "V">> ->
                    IF d2.exc # "" THEN Outcome(Raised(c, d2.exc), "", 0)
                    ELSE Outcome(DIV(c, d2.rd, d2.x), "", 0)
               [] op = <<"E", "X", "I", "T">> ->
                    Outcome(Raised(c, ""), "EXIT", 0)
               [] OTHER -> Outcome(Raised(c, ""), "", 1)

execute_instruction(c, parts) ==
    IF parts = <<>> \/ (Len(parts[1]) > 0 /\ parts[1][1] \in {"#", ";"})
    THEN Outcome(Raised(c, ""), "", 0)
    ELSE LET op == upper(parts[1])
             d2 == Decode2(parts)
             d3 == Decode3(parts)
         IN  CASE op = <<"M", "O", "V">> ->
                    IF d2.exc # "" THEN Outcome(Raised(c, d2.exc), "", 0)
                    ELSE Outcome(MOV(c, d2.rd, d2.x), "", 0)
               [] op = <<"A", "D", "D">> ->
                    IF d3.exc # "" THEN Outcome(Raised(c, d3.exc), "", 0)
                    ELSE Outcome(ADD(c, d3.rd, d3.rs, d3.imm), "", 0)
               [] op = <<"S", "U", "B">> ->
                    IF d3.exc # "" THEN Outcome(Raised(c, d3.exc), "", 0)
                    ELSE Outcome(SUB(c, d3.rd, d3.rs, d3.imm), "", 0)
               [] op = <<"M", "U", "L">> ->
                    IF d2.exc # "" THEN Outcome(Raised(c, d2.exc), "", 0)
                    ELSE Outcome(MUL(c, d2.rd, d2.x), "", 0)
               [] op = <<"D", "I", "V">> ->
                    IF d2.exc # "" THEN Outcome(Raised(c, d2.exc), "", 0)
                    ELSE Outcome(DIV(c, d2.rd, d2.x), "", 0)
               [] op = <<"E", "X", "I", "T">> ->
                    Outcome(Raised(c, ""), "EXIT", 0)
               [] OTHER -> Outcome(Raised(c, ""), "", 1)

(***************************************************************************)
(* State.  R, cycles and instruction_count are the fields of the one CPU32 *)
(* instance of a run.  mode is the way the engine is driven: "api" for a   *)
(* caller of the CPU32 methods (as the example program of isa32_sim.py),   *)
(* "file" for run_file and "interactive" for run_interactive.  halted says *)
(* that the driver's loop was left.  stdout counts the diagnostic lines    *)
(* printed so far, by kind; completed counts, per opcode, the engine calls *)
(* that ran to their last statement.                                       *)
(***************************************************************************)
vars == <<R, cycles, instruction_count, mode, halted, stdout, completed,
          width, input, pc, dumped, reported, crashed>>

\* what belongs to a whole session: its input, the number of lines read,
\* the dumps and reports printed, and whether an exception ended it
session == <<input, pc, dumped, reported, crashed>>

Modes    == {"api", "file", "interactive"}
Messages == {"div_zero", "unknown", "error"}

Self == [R |-> R, cycles |-> cycles, instruction_count |-> instruction_count]

\* calls completed and diagnostics printed so far
Steps ==
    completed["MOV"] + completed["ADD"] + completed["SUB"] + completed["MUL"]
    + completed["DIV"] + stdout["div_zero"] + stdout["unknown"] + stdout["error"]

Init ==
    /\ R = NewCPU.R
    /\ cycles = NewCPU.cycles
    /\ instruction_count = NewCPU.instruction_count
    /\ mode \in Modes
    /\ halted = FALSE
    /\ stdout = [m \in Messages |-> 0]
    /\ completed = [op \in Opcodes |-> 0]
    /\ width = WordBits
    /\ input = <<>>
    /\ pc = 0
    /\ dumped = 0
    /\ reported = 0
    /\ crashed = FALSE

\* The CPU fields and the completed-call history after a call's result r.
Commit(r) ==
    /\ R' = r.cpu.R
    /\ cycles' = r.cpu.cycles
    /\ instruction_count' = r.cpu.instruction_count
    /\ completed' = IF r.done = "" THEN completed
                    ELSE [completed EXCEPT ![r.done] = @ + 1]

(***************************************************************************)
(* Calls of the engine's methods by a caller, with in-range indices.       *)
(***************************************************************************)
RegArgs == {1, 2, HiReg}
\* every value of the signed view, and immediates outside the word's range
Imms    == ((-SIGN_BIT) .. (SIGN_BIT - 1)) \cup {-SIGN_BIT - 1, MASK32, MODULUS}
AddImms == {-SIGN_BIT - 1, MODULUS + 1}

Call(r) ==
    /\ mode = "api"
    /\ Steps < MaxCalls
    /\ Commit(r)
    /\ stdout' = [stdout EXCEPT !["div_zero"] = @ + r.warned]
    /\ UNCHANGED <<mode, halted, width, session>>

CallMOV(rd, imm)     == Call(MOV(Self, rd, imm))
CallADD(rd, rs, imm) == Call(ADD(Self, rd, rs, imm))
CallSUB(rd, rs, imm) == Call(SUB(Self, rd, rs, imm))
CallMUL(rd, rs)      == Call(MUL(Self, rd, rs))
CallDIV(rd, rs)      == Call(DIV(Self, rd, rs))

(***************************************************************************)
(* Input lines of the drivers.                                             *)
(***************************************************************************)
tMOV == <<"M", "O", "V">>
tADD == <<"A", "D", "D">>
tSUB == <<"S", "U", "B">>
tMUL == <<"M", "U", "L">>
tDIV == <<"D", "I", "V">>
r1   == <<"r", "1">>
r2   == <<"r", "2">>
r3   == <<"r", "3">>

Lines == {
    <<>>,                                           \* blank
    << <<"#">>, <<"x">> >>,                         \* # x
    << <<";", "x">> >>,                             \* ;x
    << tMOV, r1, <<"-", "3">> >>,                   \* MOV r1 -3
    << <<"m", "o", "v">>, <<"R", "2", ",">>, <<"2">> >>,   \* mov R2, 2
    << tMOV, r2, r1 >>,                             \* MOV r2 r1
    << tMOV, <<"-", "1">>, <<"1", "3">> >>,         \* MOV -1 13
    << tMOV, <<"r", "8">>, <<"1">> >>,              \* MOV r8 1
    << tMOV, r1 >>,                                 \* MOV r1
    << tMOV, r1, <<"2">>, <<"9">> >>,               \* MOV r1 2 9
    << tMOV, r1, <<"x">> >>,                        \* MOV r1 x
    << tADD, r1, r1, <<"3">> >>,                    \* ADD r1 r1 3
    << tADD, r2, r1, r2 >>,                         \* ADD r2 r1 r2
    << tADD, r1, <<"3">> >>,                        \* ADD r1 3
    << tSUB, r1, r2, <<"1">> >>,                    \* SUB r1 r2 1
    << tMUL, r1, r2 >>,                             \* MUL r1 r2
    << tMUL, r2, <<"1">> >>,                        \* MUL r2 1
    << tDIV, r1, r2 >>,                             \* DIV r1 r2
    << tDIV, r1, r3 >>,                             \* DIV r1 r3
    << <<"F", "O", "O">>, r1, <<"2">> >>,           \* FOO r1 2
    << <<"E", "N", "D">> >>,                        \* END
    << <<"e", "x", "i", "t">> >>,                   \* exit
    << <<"E", "X", "I", "T">>, <<"x">> >>           \* EXIT x
}

\* what a driver keeps of execute_instruction's result
Executed(r) ==
    /\ Commit(r)
    /\ stdout' = [stdout EXCEPT !["div_zero"] = @ + r.warned,
                                !["unknown"]  = @ + r.unknown,
                                !["error"]    = @ + r.error]

\* run_file: one turn of the loop over the file's lines
FileLine(line) ==
    /\ mode = "file"
    /\ ~halted
    /\ Steps < MaxLines
    /\ LET r == execute_instruction(Self, line)
       IN  /\ Executed(r)
           /\ halted' = (r.ret = "EXIT")
    /\ UNCHANGED <<mode, width, session>>

\* run_interactive: one turn of the loop, on the line input() returned
InteractiveLine(line) ==
    /\ mode = "interactive"
    /\ ~halted
    /\ Steps < MaxLines
    /\ IF line = <<>> THEN UNCHANGED vars
       ELSE IF Len(line) = 1 /\ upper(line[1]) = <<"E", "X", "I", "T">>
       THEN /\ halted' = TRUE
            /\ UNCHANGED <<R, cycles, instruction_count, mode, stdout, completed,
                           width, session>>
       ELSE /\ Executed(execute_instruction(Self, line))
            /\ UNCHANGED <<mode, halted, width, session>>

Next ==
    \/ \E rd \in RegArgs, imm \in Imms : CallMOV(rd, imm)
    \/ \E rd \in RegArgs, rs \in RegArgs, imm \in AddImms : CallADD(rd, rs, imm)
    \/ \E rd \in RegArgs, rs \in RegArgs, imm \in AddImms : CallSUB(rd, rs, imm)
    \/ \E rd \in RegArgs, rs \in RegArgs : CallMUL(rd, rs)
    \/ \E rd \in RegArgs, rs \in RegArgs : CallDIV(rd, rs)
    \/ \E line \in Lines : FileLine(line)
    \/ \E line \in Lines : InteractiveLine(line)

Spec == Init /\ [][Next]_vars

(***************************************************************************)
(* Vocabulary of the properties: the storage and signed views of a word,   *)
(* and the quotient truncated toward zero, stated from their definitions.  *)
(***************************************************************************)
wrap(x)   == x % (2 ^ WordBits)
signed(x) == IF x >= 2 ^ (WordBits - 1) THEN x - 2 ^ WordBits ELSE x

TruncQuot(a, b) ==
    CHOOSE q \in (-Abs(a)) .. Abs(a) :
        /\ Abs(q) * Abs(b) <= Abs(a)
        /\ (Abs(q) + 1) * Abs(b) > Abs(a)
        /\ (q # 0 => ((q > 0) <=> ((a < 0) <=> (b < 0))))

GeneralRegs == RegArgs \ {HiReg}

\* C1: after DIV(rd, rs) with rd # 7 and a non-zero divisor, register 7
\* holds wrap(remainder), where quotient * divisor + remainder = dividend
\* for the quotient truncated toward zero, and the remainder is zero or has
\* the sign of the dividend.
C1_DivRemainder ==
    \A rd \in GeneralRegs, rs \in RegArgs :
        signed(R[rs]) # 0 =>
            LET dividend  == signed(R[rd])
                divisor   == signed(R[rs])
                remainder == dividend - TruncQuot(dividend, divisor) * divisor
            IN  /\ DIV(Self, rd, rs).cpu.R[HiReg] = wrap(remainder)
                /\ (remainder = 0 \/ ((remainder < 0) <=> (dividend < 0)))

\* C2: after DIV(rd, rs) with rd # 7 and a non-zero divisor, register rd
\* holds wrap(q) for q the quotient truncated toward zero, for every sign
\* combination; dividing the most negative value by -1 stores wrap(2^(w-1))
\* and raises no fault: the call completes, counted, with nothing printed.
C2_DivQuotient ==
    \A rd \in GeneralRegs, rs \in RegArgs :
        signed(R[rs]) # 0 =>
            LET after == DIV(Self, rd, rs)
            IN  /\ after.cpu.R[rd] =
                       wrap(TruncQuot(signed(R[rd]), signed(R[rs])))
                /\ (signed(R[rd]) = -(2 ^ (WordBits - 1)) /\ signed(R[rs]) = -1
                      => after.cpu.R[rd] = 2 ^ (WordBits - 1))
                /\ after.exc = "" /\ after.done = "DIV" /\ after.warned = 0

\* C2 witness: -3 / 2 has been executed by the lines `MOV r1 -3`,
\* `mov R2, 2`, `DIV r1 r2`: register 1 holds -1 (the floored quotient
\* would be -2) and register 2 the divisor.
C2_Witness ==
    /\ completed = [op \in Opcodes |->
                      IF op = "MOV" THEN 2 ELSE IF op = "DIV" THEN 1 ELSE 0]
    /\ stdout = [m \in Messages |-> 0]
    /\ R[1] = wrap(-1)
    /\ R[2] = 2
    /\ R[HiReg] # 0

\* C3: DIV(rd, rs) with a zero divisor leaves all 8 registers and both
\* counters unchanged and prints exactly one division-by-zero warning and
\* nothing else, as a call of the engine and as a DIV line of either driver.
DivLine(rs) == << tDIV, r1, <<"r", Digits[rs + 1]>> >>

C3_DivByZeroSkipped ==
    /\ \A rd \in RegArgs, rs \in RegArgs :
          signed(R[rs]) = 0 =>
              LET after == DIV(Self, rd, rs)
              IN  /\ after.cpu.R = R
                  /\ DOMAIN after.cpu.R = 0 .. 7
                  /\ after.cpu.instruction_count = instruction_count
                  /\ after.cpu.cycles = cycles
                  /\ after.warned = 1 /\ after.exc = "" /\ after.done = ""
    /\ \A rs \in {2, 3} :
          (mode # "api" /\ signed(R[rs]) = 0) =>
              LET after == execute_instruction(Self, DivLine(rs))
              IN  /\ after.cpu = Self
                  /\ after.warned = 1 /\ after.error = 0 /\ after.unknown = 0
                  /\ after.done = ""

\* C3 witness: a division by zero was skipped after one MOV: one warning,
\* one instruction counted, the dividend still in its register.
C3_Witness ==
    /\ stdout["div_zero"] = 1
    /\ instruction_count = 1
    /\ cycles = 1
    /\ R[1] = 2 ^ WordBits - 3

\* C4: after MUL(rd, rs) with rd # 7, (R[7], R[rd]) is the exact split of
\* the full-precision signed product p of the two registers before the
\* call: R[rd] = p mod 2^w, R[7] = floor(p / 2^w) mod 2^w, and
\* signed(R[7]) * 2^w + R[rd] = p.
C4_MulSplit ==
    \A rd \in GeneralRegs, rs \in RegArgs :
        LET p     == signed(R[rd]) * signed(R[rs])
            after == MUL(Self, rd, rs).cpu.R
        IN  /\ after[rd] = p % (2 ^ WordBits)
            /\ after[HiReg] = (p \div (2 ^ WordBits)) % (2 ^ WordBits)
            /\ signed(after[HiReg]) * (2 ^ WordBits) + after[rd] = p

\* C4 witness: -3 times 2 was executed by the lines `MOV r1 -3`,
\* `mov R2, 2`, `MUL r1 r2`: the low word is wrap(-6) and the high word is
\* -1, the sign extension of the negative product.
C4_Witness ==
    /\ completed = [op \in Opcodes |->
                      IF op = "MOV" THEN 2 ELSE IF op = "MUL" THEN 1 ELSE 0]
    /\ stdout = [m \in Messages |-> 0]
    /\ R[1] = wrap(-6)
    /\ R[2] = 2
    /\ R[HiReg] = 2 ^ WordBits - 1

\* the remainder as the engine computes it: congruent to the dividend
\* modulo the divisor, and zero or of the divisor's sign
FlooredRemainder(a, b) ==
    CHOOSE r \in (-Abs(b)) .. Abs(b) :
        /\ (a - r) % Abs(b) = 0
        /\ IF b > 0 THEN 0 <= r /\ r < b ELSE b < r /\ r <= 0

\* C5: with rd = 7 the secondary result is the last write to register 7:
\* after MUL(7, rs) it holds the high word of the product, after a
\* successful DIV(7, rs) the remainder the engine computed; both operands
\* are read before either write, also when rs = 7.
C5_SecondaryWriteLast ==
    /\ \A rs \in RegArgs :
          /\ LET p == signed(R[HiReg]) * signed(R[rs])
             IN  MUL(Self, HiReg, rs).cpu.R[HiReg] = wrap(p \div (2 ^ WordBits))
          /\ signed(R[rs]) # 0 =>
                DIV(Self, HiReg, rs).cpu.R[HiReg] =
                    wrap(FlooredRemainder(signed(R[HiReg]), signed(R[rs])))
    /\ \A rd \in GeneralRegs :
          /\ LET p     == signed(R[rd]) * signed(R[HiReg])
                 after == MUL(Self, rd, HiReg).cpu.R
             IN  /\ after[rd] = wrap(p)
                 /\ after[HiReg] = wrap(p \div (2 ^ WordBits))
          /\ signed(R[HiReg]) # 0 =>
                LET after == DIV(Self, rd, HiReg).cpu.R
                IN  /\ after[rd] =
                           wrap(TruncQuot(signed(R[rd]), signed(R[HiReg])))
                    /\ after[HiReg] =
                           wrap(FlooredRemainder(signed(R[rd]), signed(R[HiReg])))

\* C5 witness: MUL(7, 7) was executed on the most negative value in
\* register 7: register 7 holds the high word 2^(w-2) of its square, not
\* the low word 0.
C5_Witness ==
    /\ mode = "api"
    /\ completed = [op \in Opcodes |->
                      IF op \in {"MOV", "MUL"} THEN 1 ELSE 0]
    /\ R[1] = 0
    /\ R[2] = 0
    /\ R[HiReg] = 2 ^ (WordBits - 2)

\* C6: in every reachable state the register file has exactly 8 cells and
\* every cell holds an integer in 0 .. 2^w - 1.
C6_RegistersInRange ==
    /\ DOMAIN R = 0 .. 7
    /\ Cardinality(DOMAIN R) = 8
    /\ \A i \in DOMAIN R : R[i] \in 0 .. (2 ^ WordBits - 1)

\* C6 witness: an ADD overflowed the largest positive value: MOV, ADD left
\* the wrapped sum 2^(w-1) in register 1.
C6_Witness ==
    /\ mode = "api"
    /\ completed = [op \in Opcodes |->
                      IF op \in {"MOV", "ADD"} THEN 1 ELSE 0]
    /\ R[1] = 2 ^ (WordBits - 1)
    /\ R[2] = 0
    /\ R[HiReg] = 0

\* the cost table of the claim
Cost(op) == CASE op = "MOV" -> 1 [] op = "ADD" -> 1 [] op = "SUB" -> 1
              [] op = "MUL" -> 3 [] op = "DIV" -> 4

\* lines that are no successful opcode call: blank, comment, terminator,
\* and malformed (unknown opcode, too few operands, too many operands, a
\* destination that is no register token, a non-numeric operand, a register
\* index out of range)
UncountedLines == {
    <<>>,
    << <<"#">>, <<"x">> >>,
    << <<";", "x">> >>,
    << <<"E", "N", "D">> >>,
    << <<"e", "x", "i", "t">> >>,
    << <<"E", "X", "I", "T">>, <<"x">> >>,
    << <<"F", "O", "O">>, r1, <<"2">> >>,
    << tMOV, r1 >>,
    << tMOV, r1, <<"2">>, <<"9">> >>,
    << tMOV, <<"-", "1">>, <<"1", "3">> >>,
    << tMOV, r1, <<"x">> >>,
    << tMOV, <<"r", "8">>, <<"1">> >>
}

\* C7: instruction_count is the number of successfully executed opcode
\* calls and cycles the sum of their costs (MOV, MOV, MUL, DIV: 4 and 9);
\* a successful call raises instruction_count by 1 and cycles by its cost,
\* and no other step (skipped division by zero, faulted call, blank,
\* comment, malformed or terminator line) changes either counter.
C7_CounterAccounting ==
    /\ [](/\ instruction_count =
               completed["MOV"] + completed["ADD"] + completed["SUB"]
               + completed["MUL"] + completed["DIV"]
          /\ cycles =
               completed["MOV"] * Cost("MOV") + completed["ADD"] * Cost("ADD")
               + completed["SUB"] * Cost("SUB") + completed["MUL"] * Cost("MUL")
               + completed["DIV"] * Cost("DIV")
          /\ (completed = [op \in Opcodes |->
                             CASE op = "MOV" -> 2 [] op = "MUL" -> 1
                               [] op = "DIV" -> 1 [] OTHER -> 0]
                => instruction_count = 4 /\ cycles = 9))
    /\ [][/\ \/ \E op \in Opcodes :
                  /\ completed' = [completed EXCEPT ![op] = @ + 1]
                  /\ instruction_count' = instruction_count + 1
                  /\ cycles' = cycles + Cost(op)
             \/ /\ completed' = completed
                /\ instruction_count' = instruction_count
                /\ cycles' = cycles
          /\ stdout' # stdout =>
                instruction_count' = instruction_count /\ cycles' = cycles
          /\ \A line \in UncountedLines :
                (FileLine(line) \/ InteractiveLine(line)) =>
                    instruction_count' = instruction_count /\ cycles' = cycles
         ]_vars

\* C8: after MOV(rd, value) register rd holds value mod 2^w and every
\* other register is unchanged.
C8_MovFrame ==
    \A rd \in RegArgs, value \in Imms :
        LET after == MOV(Self, rd, value).cpu.R
        IN  /\ after[rd] = value % (2 ^ WordBits)
            /\ \A i \in (0 .. 7) \ {rd} : after[i] = R[i]

\* C8 witness: two MOVs were executed, the second with an immediate above
\* the word's range; register 1 still holds what the first one stored.
C8_Witness ==
    /\ mode = "api"
    /\ completed = [op \in Opcodes |-> IF op = "MOV" THEN 2 ELSE 0]
    /\ R[1] = 2 ^ WordBits - 1
    /\ R[2] = 0
    /\ R[HiReg] = 2 ^ (WordBits - 1) - 1

\* the register file after ADD(rd, rs, value) and then SUB(rd, rs, value)
AddThenSub(rd, rs, value) ==
    SUB(ADD(Self, rd, rs, value).cpu, rd, rs, value).cpu.R

\* C9: for all rd, rs (including rd # rs) and all values, ADD(rd, rs,
\* value) and then SUB(rd, rs, value) leave register rd with the content
\* it had before the ADD.
C9_AddSubInverse ==
    \A rd \in GeneralRegs, rs \in GeneralRegs, value \in Imms :
        AddThenSub(rd, rs, value)[rd] = R[rd]

\* C9 as amended: with rd = rs, ADD and then SUB with the same value leave
\* register rd with the content it had before the ADD; with rd # rs they
\* leave it at wrap(signed(R[rs]) - signed(value)), whatever it held.
C9_AddSubInverseSameRegister ==
    \A rd \in GeneralRegs, rs \in GeneralRegs, value \in Imms :
        AddThenSub(rd, rs, value)[rd] =
            IF rd = rs THEN R[rd]
            ELSE wrap(signed(R[rs]) - signed(wrap(value)))

\* C9 witness: an ADD and a SUB were executed on a fresh register file and
\* every register is back at 0: the ADD wrote a register from itself and
\* an immediate outside the word's range, the SUB took the same away.
C9_Witness ==
    /\ mode = "api"
    /\ completed = [op \in Opcodes |->
                      IF op \in {"ADD", "SUB"} THEN 1 ELSE 0]
    /\ R = [i \in 0 .. 7 |-> 0]

\* C10: a line whose source operand is a register token is executed with
\* that register's content: after `MOV r2 r1` register 2 holds the content
\* of register 1, and `ADD r2 r1 r2` adds the content of register 2 to
\* that of register 1.
C10_RegisterSourceOperand ==
    [][/\ (FileLine(<<tMOV, r2, r1>>) \/ InteractiveLine(<<tMOV, r2, r1>>))
            => R'[2] = R[1]
       /\ (FileLine(<<tADD, r2, r1, r2>>)
              \/ InteractiveLine(<<tADD, r2, r1, r2>>))
            => R'[2] = wrap(signed(R[1]) + signed(R[2]))
      ]_vars

\* malformed lines: unknown opcode, too few operands, too many operands, a
\* destination that is no register token, a non-numeric operand
MalformedLines == {
    << <<"F", "O", "O">>, r1, <<"2">> >>,
    << tMOV, r1 >>,
    << tMOV, r1, <<"2">>, <<"9">> >>,
    << tMOV, <<"-", "1">>, <<"1", "3">> >>,
    << tMOV, r1, <<"x">> >>
}

\* C11: a malformed line changes no register and no counter, and the
\* driver goes on to the next line.
C11_MalformedLineRejected ==
    [][\A line \in MalformedLines :
          (FileLine(line) \/ InteractiveLine(line)) =>
              /\ R' = R
              /\ instruction_count' = instruction_count
              /\ cycles' = cycles
              /\ ~halted'
      ]_vars

\* register indices outside 0 .. 7, negative and too large
BadIndices == {-NumRegs - 1, -NumRegs, -1, NumRegs}

\* the effect of an engine call or line that was rejected: an error is
\* raised and the CPU is as it was
Rejected(r) == r.exc # "" /\ r.cpu = Self /\ r.done = ""

\* C12: an engine operation or line with a register index outside 0 .. 7,
\* as rd or as rs, is rejected as an error and leaves every register and
\* both counters unchanged.
C12_IndexOutOfRangeRejected ==
    /\ \A bad \in BadIndices, ok \in RegArgs :
          /\ Rejected(MOV(Self, bad, 1))
          /\ Rejected(ADD(Self, bad, ok, 1)) /\ Rejected(ADD(Self, ok, bad, 1))
          /\ Rejected(SUB(Self, bad, ok, 1)) /\ Rejected(SUB(Self, ok, bad, 1))
          /\ Rejected(MUL(Self, bad, ok)) /\ Rejected(MUL(Self, ok, bad))
          /\ Rejected(DIV(Self, bad, ok)) /\ Rejected(DIV(Self, ok, bad))
    /\ LET r == execute_instruction(Self, << tMOV, <<"r", "8">>, <<"1">> >>)
       IN  r.error = 1 /\ r.cpu = Self /\ r.done = ""

\* terminator lines: the mnemonic END or EXIT, in any letter case
TerminatorLines == {
    << <<"E", "N", "D">> >>,
    << <<"e", "n", "d">> >>,
    << <<"E", "X", "I", "T">> >>,
    << <<"e", "x", "i", "t">> >>
}

\* C13: processing a terminator line changes no register and no counter
\* and leaves the driver's loop; once the loop is left, no register and no
\* counter changes any more.
C13_TerminatorHalts ==
    /\ [][\A line \in TerminatorLines :
             (FileLine(line) \/ InteractiveLine(line)) =>
                 /\ R' = R
                 /\ instruction_count' = instruction_count
                 /\ cycles' = cycles
                 /\ halted'
         ]_vars
    /\ [][halted =>
             /\ R' = R
             /\ instruction_count' = instruction_count
             /\ cycles' = cycles
             /\ halted'
         ]_vars

\* C14: the two-operand line `ADD r1 3` is executed like `ADD r1 r1 3`: it
\* stores wrap(signed(R[1]) + 3) into register 1 and counts as one ADD.
C14_TwoOperandAdd ==
    [][(FileLine(<<tADD, r1, <<"3">> >>)
          \/ InteractiveLine(<<tADD, r1, <<"3">> >>)) =>
            /\ R' = [R EXCEPT ![1] = wrap(signed(R[1]) + 3)]
            /\ completed' = [completed EXCEPT !["ADD"] = @ + 1]
            /\ instruction_count' = instruction_count + 1
            /\ cycles' = cycles + 1
      ]_vars

(***************************************************************************)
(* Whole sessions.  The input of a session is given when it starts: the    *)
(* lines of the file of run_file, or the lines typed before the end of     *)
(* the input of run_interactive.  pc counts the lines read.  After its     *)
(* loop a driver dumps the registers and prints the report.                *)
(***************************************************************************)
t3 == <<"3">>
t2 == <<"2">>
tEND == <<"E", "N", "D">>

\* MOV r1 3 / ADD r1 r1 3 / MOV r2 2 / MUL r2 r1 / MOV r3 2 / DIV r3 r2 / END
ExampleProgram == <<
    << tMOV, r1, t3 >>,
    << tADD, r1, r1, t3 >>,
    << tMOV, r2, t2 >>,
    << tMUL, r2, r1 >>,
    << tMOV, r3, t2 >>,
    << tDIV, r3, r2 >>,
    << tEND >>
>>

SessionLines == {
    <<>>,                                           \* blank
    << <<"#">>, <<"x">> >>,                         \* # x
    << tMOV, r1, <<"-", "3">> >>,                   \* MOV r1 -3
    << tDIV, r1, r2 >>,                             \* DIV r1 r2
    << <<"F", "O", "O">>, r1, <<"2">> >>,           \* FOO r1 2
    << <<"e", "x", "i", "t">> >>,                   \* exit
    << <<"E", "X", "I", "T">>, <<"x">> >>           \* EXIT x
}

Inputs ==
    {ExampleProgram}
    \cup UNION {[1 .. n -> SessionLines] : n \in 0 .. MaxInput}

SessionInit ==
    /\ R = NewCPU.R
    /\ cycles = NewCPU.cycles
    /\ instruction_count = NewCPU.instruction_count
    /\ mode \in {"file", "interactive"}
    /\ halted = FALSE
    /\ stdout = [m \in Messages |-> 0]
    /\ completed = [op \in Opcodes |-> 0]
    /\ width = SessionBits
    /\ input \in Inputs
    /\ pc = 0
    /\ dumped = 0
    /\ reported = 0
    /\ crashed = FALSE

\* run_file: the loop body on the next line of the file
RunFileLine ==
    /\ mode = "file" /\ ~halted /\ ~crashed
    /\ pc < Len(input)
    /\ \E r \in {execute_instruction(Self, input[pc + 1])} :
           /\ Executed(r)
           /\ halted' = (r.ret = "EXIT")
    /\ pc' = pc + 1
    /\ UNCHANGED <<mode, width, input, dumped, reported, crashed>>

\* run_file: the for loop is exhausted
RunFileEnd ==
    /\ mode = "file" /\ ~halted /\ ~crashed
    /\ pc = Len(input)
    /\ halted' = TRUE
    /\ UNCHANGED <<R, cycles, instruction_count, mode, stdout, completed,
                   width, input, pc, dumped, reported, crashed>>

\* run_interactive: the loop body on the line input() returned
RunInteractiveLine ==
    /\ mode = "interactive" /\ ~halted /\ ~crashed
    /\ pc < Len(input)
    /\ LET line == input[pc + 1]
       IN  IF line = <<>>
           THEN UNCHANGED <<R, cycles, instruction_count, stdout, completed,
                            halted>>
           ELSE IF Len(line) = 1 /\ upper(line[1]) = <<"E", "X", "I", "T">>
           THEN /\ halted' = TRUE
                /\ UNCHANGED <<R, cycles, instruction_count, stdout,
                               completed>>
           ELSE /\ \E r \in {execute_instruction(Self, line)} : Executed(r)
                /\ UNCHANGED halted
    /\ pc' = pc + 1
    /\ UNCHANGED <<mode, width, input, dumped, reported, crashed>>

\* run_interactive: input() at the end of the input raises EOFError, which
\* nothing catches
RunInteractiveEOF ==
    /\ mode = "interactive" /\ ~halted /\ ~crashed
    /\ pc = Len(input)
    /\ crashed' = TRUE
    /\ UNCHANGED <<R, cycles, instruction_count, mode, halted, stdout,
                   completed, width, input, pc, dumped, reported>>

\* cpu.dump_registers() after the loop
DumpRegisters ==
    /\ halted /\ ~crashed
    /\ dumped = 0
    /\ dumped' = 1
    /\ UNCHANGED <<R, cycles, instruction_count, mode, halted, stdout,
                   completed, width, input, pc, reported, crashed>>

\* cpu.report() after the dump
Report ==
    /\ halted /\ ~crashed
    /\ dumped = 1 /\ reported = 0
    /\ reported' = 1
    /\ UNCHANGED <<R, cycles, instruction_count, mode, halted, stdout,
                   completed, width, input, pc, dumped, crashed>>

SessionNext ==
    \/ RunFileLine
    \/ RunFileEnd
    \/ RunInteractiveLine
    \/ RunInteractiveEOF
    \/ DumpRegisters
    \/ Report

SessionSpec == SessionInit /\ [][SessionNext]_vars

\* a driver that can take a step takes it
SessionLive == SessionSpec /\ WF_vars(SessionNext)

\* the loops of the drivers as functions of the input: the CPU when the
\* loop ends and the position of the line that ended it (past the last
\* line when the input ran out)
RECURSIVE run_file(_, _, _)
run_file(c, lines, i) ==
    IF i > Len(lines) THEN [cpu |-> c, ended |-> i]
    ELSE LET r == execute_instruction(c, lines[i])
         IN  IF r.ret = "EXIT" THEN [cpu |-> r.cpu, ended |-> i]
             ELSE run_file(r.cpu, lines, i + 1)

RECURSIVE run_interactive(_, _, _)
run_interactive(c, lines, i) ==
    IF i > Len(lines) THEN [cpu |-> c, ended |-> i]
    ELSE IF lines[i] = <<>> THEN run_interactive(c, lines, i + 1)
    ELSE IF Len(lines[i]) = 1 /\ upper(lines[i][1]) = <<"E", "X", "I", "T">>
    THEN [cpu |-> c, ended |-> i]
    ELSE run_interactive(execute_instruction(c, lines[i]).cpu, lines, i + 1)

\* the example program has been read to its last line
ExampleDone == input = ExampleProgram /\ pc = Len(ExampleProgram)

\* C15: after the example program register 2 holds 12 and register 7 the
\* high word of that product, 0.
C15_ExampleProgram ==
    ExampleDone => R[2] = 12 /\ R[HiReg] = 0

\* C15 as amended: after `MUL r2 r1` register 2 holds 12 and register 7 the
\* high word 0; the following `DIV r3 r2` divides 2 by 12 and overwrites
\* register 7 with the remainder, so that after the program register 2
\* holds 12, register 3 the quotient 0 and register 7 the remainder 2.
C15_ExampleProgramRemainder ==
    /\ (input = ExampleProgram /\ pc = 4) => R[2] = 12 /\ R[HiReg] = 0
    /\ ExampleDone =>
          /\ R[1] = 6 /\ R[2] = 12 /\ R[3] = 0 /\ R[HiReg] = 2
          /\ instruction_count = 6 /\ cycles = 11

\* C15 witness: the example program was read to its end and its DIV was
\* executed.
C15_Witness ==
    /\ ExampleDone
    /\ completed["DIV"] = 1
    /\ completed["MUL"] = 1
    /\ R[2] = 12

\* C16: fed the same lines, run_file and run_interactive end their loops
\* at the same line and with identical registers, instruction count and
\* cycle count.
C16_ModesAgree ==
    LET f == run_file(NewCPU, input, 1)
        i == run_interactive(NewCPU, input, 1)
    IN  /\ f.ended = i.ended
        /\ f.cpu.R = i.cpu.R
        /\ f.cpu.instruction_count = i.cpu.instruction_count
        /\ f.cpu.cycles = i.cpu.cycles

\* C17: every session eventually terminates normally, with exactly one
\* register dump followed by one performance report, in file mode and in
\* interactive mode, whether its input ends with a terminator or without.
C17_SessionTerminates ==
    /\ <>[](halted /\ ~crashed /\ dumped = 1 /\ reported = 1)
    /\ [](reported <= dumped /\ dumped <= 1)

\* blank and comment lines
NoOpLines == {
    <<>>,
    << <<"#">>, <<"x">> >>,
    << <<"#", "M", "O", "V">>, r1, t3 >>,
    << <<";", "x">> >>,
    << <<";">>, tMOV, r1, t3 >>
}

\* C18: a blank line or a line that begins with `#` or `;` changes no
\* register, nor the instruction counter, nor the cycle counter: in every
\* reachable state execute_instruction leaves the CPU as it is on such a
\* line, and a turn of either driver's loop that reads one changes nothing.
C18_BlankAndCommentLines ==
    /\ [](\A line \in NoOpLines : execute_instruction(Self, line).cpu = Self)
    /\ [][(pc' = pc + 1 /\ input[pc + 1] \in NoOpLines) =>
             /\ R' = R
             /\ instruction_count' = instruction_count
             /\ cycles' = cycles
         ]_vars

\* C18 witness: an interactive session has executed a MOV and then read a
\* comment line.
C18_Witness ==
    /\ mode = "interactive"
    /\ pc = 2
    /\ input = << << tMOV, r1, <<"-", "3">> >>, << <<"#">>, <<"x">> >> >>
    /\ instruction_count = 1
    /\ R[1] = 2 ^ SessionBits - 3

\* C19: for every stored value x in 0 .. 2^w - 1, wrap32(to_signed32(x))
\* is x, and to_signed32(x) lies in -2^(w-1) .. 2^(w-1) - 1: x - 2^w for
\* x >= 2^(w-1), x itself below.
C19_SignedRoundTrip ==
    \A x \in 0 .. (2 ^ WordBits - 1) :
        /\ wrap32(to_signed32(x)) = x
        /\ to_signed32(x) \in (-(2 ^ (WordBits - 1))) .. (2 ^ (WordBits - 1) - 1)
        /\ to_signed32(x) = IF x >= 2 ^ (WordBits - 1) THEN x - 2 ^ WordBits
                            ELSE x

\* C19 witness: a MOV of -1 has stored the largest word, whose signed view
\* is negative, and an ADD computed from that view.
C19_Witness ==
    /\ mode = "api"
    /\ completed = [op \in Opcodes |-> IF op \in {"MOV", "ADD"} THEN 1 ELSE 0]
    /\ R[1] = 2 ^ WordBits - 1
    /\ R[2] = wrap(-1 + signed(wrap(-(2 ^ (WordBits - 1)) - 1)))

\* the register file after, with registers a and b put back to what they
\* are now
PutBack(after, a, b) == [after EXCEPT ![a] = R[a], ![b] = R[b]]

\* C20: ADD(rd, rs, value) and SUB(rd, rs, value) leave every register
\* other than rd unchanged; MUL(rd, rs) and a successful DIV(rd, rs) leave
\* every register other than rd and register 7 unchanged.
C20_OpcodeFrame ==
    \A rd \in RegArgs, rs \in RegArgs :
        /\ PutBack(ADD(Self, rd, rs, 2 ^ WordBits + 1).cpu.R, rd, rd) = R
        /\ PutBack(SUB(Self, rd, rs, 2 ^ WordBits + 1).cpu.R, rd, rd) = R
        /\ PutBack(MUL(Self, rd, rs).cpu.R, rd, HiReg) = R
        /\ signed(R[rs]) # 0 =>
              PutBack(DIV(Self, rd, rs).cpu.R, rd, HiReg) = R

\* C20 witness: with -1 in register 7, ADD(1, 7, value) has written
\* register 1 only: register 7, its source, still holds -1 and register 2
\* is untouched.
C20_Witness ==
    /\ mode = "api"
    /\ completed = [op \in Opcodes |-> IF op \in {"MOV", "ADD"} THEN 1 ELSE 0]
    /\ R[HiReg] = 2 ^ WordBits - 1
    /\ R[1] = wrap(-1 + signed(wrap(-(2 ^ (WordBits - 1)) - 1)))
    /\ R[2] = 0

=============================================================================
